---- MODULE Spec2Model ----
(***************************************************************************)
(* Model of script_runner/cli_runner.py: the annotation parser             *)
(* (parse_script_metadata), the cleo command adapter (ScriptCommand) with  *)
(* its conflict resolution, the runner-block generator and script          *)
(* transformer (_create_temp_script, _update_script_runner_block), the     *)
(* temp-file lifecycle of handle, and the bash child that evaluates the    *)
(* generated binding lines.                                                *)
(*                                                                         *)
(* Python strings are sequences of tokens.  A token is a piece of text     *)
(* that no regular expression, split or startswith of the program cuts in  *)
(* two: a marker, a newline, a blank, a punctuation sign or a word.        *)
(***************************************************************************)
EXTENDS Integers, Sequences, FiniteSets, TLC

VARIABLES
    script_file,   \* text of the script at script_path
    script_meta,   \* ScriptCommand.script_meta / the dict parse_script_metadata returns
    environ,       \* os.environ of the invoking process
    cli,           \* what the user typed: values per declared argument and option
    pc,            \* position of the program
    opts,          \* the list ScriptCommand.options returned
    args,          \* the list ScriptCommand.arguments returned
    script_args,   \* handle: positional arguments passed to the child
    env,           \* handle: environment passed to the child
    temp_script,   \* handle: path returned by _create_temp_script
    fs,            \* temp-file namespace: path -> text
    next_temp,     \* mkstemp: the next unused unique path
    child,         \* what the bash child saw and bound
    result,        \* handle: returned code or the raised exception
    runs,          \* number of handle invocations so far
    first,         \* text after one transformation
    second,        \* text after transforming the transformed text again
    reserved       \* the module's CLEO_RESERVED_OPTIONS and CLEO_RESERVED_SHORTCUTS

vars == <<script_file, script_meta, environ, cli, pc, opts, args, script_args,
          env, temp_script, fs, next_temp, child, result, runs, first, second,
          reserved>>

----------------------------------------------------------------------------
(* Bounds of the model *)

\* longest script text (in tokens) the transformer is run on
MaxLen == 4
\* most options in a hand-built schema
MaxOpts == 1
\* most arguments in a hand-built schema
MaxArgs == 2
\* most annotation lines in a parsed script
MaxLines == 2
\* most invocations of handle in one behaviour
MaxRuns == 2

----------------------------------------------------------------------------
(* Python values *)

\* Python's None, of the same type as a string (a token that occurs in no text)
None == <<"None">>

\* d.get(k, dflt)
Get(d, k, dflt) == IF k \in DOMAIN d THEN d[k] ELSE dflt

\* Python's True and False where a string or None can stand as well
PyTrue == <<"True">>
PyFalse == <<"False">>

\* truthiness: None, "" and False are falsy
Truthy(v) == v \notin {None, <<>>, PyFalse}

NL == "\n"
SP == " "

\* str.isspace() of a one-token string
IsSpace(t) == t \in {SP, NL}

RECURSIVE LStrip(_)
\* str.lstrip()
LStrip(s) == IF s # <<>> /\ IsSpace(Head(s)) THEN LStrip(Tail(s)) ELSE s

RECURSIVE RStrip(_)
\* str.rstrip(); the one token that ends in a blank, "# ", loses it
RStrip(s) ==
    IF s # <<>> /\ IsSpace(s[Len(s)]) THEN RStrip(SubSeq(s, 1, Len(s) - 1))
    ELSE IF s # <<>> /\ s[Len(s)] = "# " THEN SubSeq(s, 1, Len(s) - 1) \o <<"#">>
    ELSE s

\* str.strip()
Strip(s) == RStrip(LStrip(s))

\* positions of token t in s
Positions(s, t) == {i \in 1..Len(s) : s[i] = t}

RECURSIVE Split(_, _)
\* str.split(sep) for a one-token separator: always at least one part
Split(s, sep) ==
    IF Positions(s, sep) = {} THEN <<s>>
    ELSE LET i == CHOOSE k \in Positions(s, sep) : \A j \in Positions(s, sep) : k <= j
         IN  <<SubSeq(s, 1, i - 1)>> \o Split(SubSeq(s, i + 1, Len(s)), sep)

RECURSIVE Join(_, _)
\* sep.join(parts)
Join(parts, sep) ==
    IF parts = <<>> THEN <<>>
    ELSE IF Len(parts) = 1 THEN parts[1]
    ELSE parts[1] \o <<sep>> \o Join(Tail(parts), sep)

----------------------------------------------------------------------------
(* Names: str.replace("-", "_").upper() *)

UpperTable ==
    [debug |-> "DEBUG", help |-> "HELP", dry |-> "DRY", run |-> "RUN",
     sh |-> "SH", verbose |-> "VERBOSE", file |-> "FILE", name |-> "NAME",
     out |-> "OUT", n |-> "N"]

\* one token of name.replace("-", "_").upper()
UpperTok(t) ==
    IF t = "-" THEN "_"
    ELSE IF t \in DOMAIN UpperTable THEN UpperTable[t]
    ELSE t

\* var_name = name.replace("-", "_").upper()
VarName(name) == [i \in 1..Len(name) |-> UpperTok(name[i])]

----------------------------------------------------------------------------
(* Runner block markers and the transformer's markers *)

START == "# <SCRIPT-RUNNER>"
END == "# </SCRIPT-RUNNER>"
USER_SETTING == "# USER SETTING"
SHEBANG == "#!"
COMMENT == "# "
CODE == "x"
\* a comment that holds the words USER SETTING and is not the marker
END_SETTING == "# END USER SETTING"

\* s.startswith("#") for a stripped line
StartsWithHash(s) ==
    s # <<>> /\ s[1] \in {START, END, USER_SETTING, END_SETTING, SHEBANG, COMMENT, "#"}

\* s.startswith("# ") for a stripped line
StartsWithHashSpace(s) ==
    s # <<>> /\ s[1] \in {START, END, USER_SETTING, END_SETTING, COMMENT}

\* "# USER SETTING" in content
HasUserSetting(s) == Positions(s, USER_SETTING) # {}

\* "USER SETTING" in line
MentionsUserSetting(s) ==
    Positions(s, USER_SETTING) \cup Positions(s, END_SETTING) # {}

----------------------------------------------------------------------------
(* Runner-block generator *)

\* the binding line of one option, without its newline
OptionLine(opt) ==
    LET var_name == VarName(opt["name"])
        default == Get(opt, "default", <<>>)
    IN  IF Get(opt, "flag", FALSE)
        THEN var_name \o <<"=", "${", "CLI_">> \o var_name \o <<":-", "0", "}">>
        ELSE IF Truthy(default)
        THEN var_name \o <<"=", "${", "$">> \o var_name \o <<":-", "${", "CLI_">>
             \o var_name \o <<":-">> \o default \o <<"}", "}">>
        ELSE var_name \o <<"=", "${", "$">> \o var_name \o <<":-", "${", "CLI_">>
             \o var_name \o <<"}", "}">>

\* the binding line _create_temp_script writes for the i-th argument
ArgLine(arg, i) ==
    VarName(arg["name"]) \o <<"=", "${", ToString(i), ":-">>
    \o Get(arg, "default", <<>>) \o <<"}">>

\* the binding line _update_script_runner_block writes for the i-th argument
ArgLineUpdate(arg, i) ==
    VarName(arg["name"]) \o <<"=", "${", "$", ToString(i), ":-">>
    \o Get(arg, "default", <<>>) \o <<"}">>

RECURSIVE OptionLines(_)
OptionLines(os) ==
    IF os = <<>> THEN <<>>
    ELSE OptionLine(Head(os)) \o <<NL>> \o OptionLines(Tail(os))

RECURSIVE ArgLines(_, _, _)
\* enumerate(args, 1); upd selects the line of _update_script_runner_block
ArgLines(as, i, upd) ==
    IF as = <<>> THEN <<>>
    ELSE (IF upd THEN ArgLineUpdate(Head(as), i) ELSE ArgLine(Head(as), i))
         \o <<NL>> \o ArgLines(Tail(as), i + 1, upd)

\* runner_block as built by either method
RunnerBlock(meta, upd) ==
    <<START, NL>>
    \o OptionLines(Get(meta, "options", <<>>))
    \o ArgLines(Get(meta, "args", <<>>), 1, upd)
    \o <<END, NL, NL>>

----------------------------------------------------------------------------
(* Script transformer *)

\* j such that the non-greedy pattern matches s[1..j+1]: the first END after
\* the START at s[1] that is followed by a newline
BlockEnds(s) == {j \in 2..(Len(s) - 1) : s[j] = END /\ s[j + 1] = NL}

RECURSIVE RemoveRunnerBlock(_)
\* re.sub(r"# <SCRIPT-RUNNER>.*?# </SCRIPT-RUNNER>\n", "", content, flags=re.DOTALL)
RemoveRunnerBlock(s) ==
    IF s = <<>> THEN <<>>
    ELSE IF s[1] = START /\ BlockEnds(s) # {}
    THEN LET j == CHOOSE k \in BlockEnds(s) : \A m \in BlockEnds(s) : k <= m
         IN  RemoveRunnerBlock(SubSeq(s, j + 2, Len(s)))
    ELSE <<s[1]>> \o RemoveRunnerBlock(Tail(s))

\* the first break condition alone: comments never end the section
EndsAtCode(line) == Strip(line) # <<>> /\ ~StartsWithHash(Strip(line))

\* the two break conditions of the loop over the lines after the marker
EndsUserSetting(line) ==
    \/ Strip(line) # <<>> /\ ~StartsWithHash(Strip(line))
    \/ StartsWithHashSpace(Strip(line)) /\ ~MentionsUserSetting(line)

\* insert_idx (0-based) after the loop: the first line that breaks, else 0
InsertIdx(lines) ==
    LET hits == {i \in 1..Len(lines) : EndsUserSetting(lines[i])}
    IN  IF hits = {} THEN 0
        ELSE (CHOOSE i \in hits : \A j \in hits : i <= j) - 1

\* new_content when the text holds the user-setting marker
InsertAfterUserSetting(content, runner_block) ==
    LET parts == Split(content, USER_SETTING)
    IN  IF Len(parts) >= 2
        THEN LET lines == Split(parts[2], NL)
                 insert_idx == InsertIdx(lines)
                 before_insert == Join(SubSeq(lines, 1, insert_idx), NL)
                 after_insert == Join(SubSeq(lines, insert_idx + 1, Len(lines)), NL)
             IN  parts[1] \o <<USER_SETTING>> \o before_insert \o <<NL, NL>>
                 \o runner_block \o after_insert
        ELSE content \o <<NL>> \o runner_block

\* new_content when the text holds no user-setting marker
InsertAfterShebang(content, runner_block) ==
    LET lines == Split(content, NL)
    IN  IF lines[1] # <<>> /\ lines[1][1] = SHEBANG
        THEN lines[1] \o <<NL, NL>> \o runner_block \o Join(Tail(lines), NL)
        ELSE runner_block \o content

\* new_content of _create_temp_script (upd FALSE) and of
\* _update_script_runner_block (upd TRUE) for the text read from the script
Transform(text, meta, upd) ==
    LET content == RemoveRunnerBlock(text)
        runner_block == RunnerBlock(meta, upd)
    IN  IF HasUserSetting(content)
        THEN InsertAfterUserSetting(content, runner_block)
        ELSE InsertAfterShebang(content, runner_block)

----------------------------------------------------------------------------
(* Values the variables hold while an operation has not produced them *)

EmptyMeta == [args |-> <<>>, options |-> <<>>]
NoCli == [args |-> <<>>, options |-> <<>>]
NoChild == [ran |-> FALSE, vars |-> <<>>, params |-> <<>>, failed |-> {}]
NoResult == [kind |-> "none"]

\* Cleo 예약 옵션들
CLEO_RESERVED_OPTIONS ==
    {<<"verbose">>, <<"quiet">>, <<"help">>, <<"version">>,
     <<"no", "-", "interaction">>, <<"ansi">>, <<"no", "-", "ansi">>}
CLEO_RESERVED_SHORTCUTS == {<<"v">>, <<"q">>, <<"h">>, <<"V">>, <<"n">>}

\* the two module-level sets as the interpreter holds them
ReservedInit ==
    reserved = [options |-> CLEO_RESERVED_OPTIONS,
                shortcuts |-> CLEO_RESERVED_SHORTCUTS]

\* everything handle, options and arguments produce, before they ran
CommandIdle ==
    /\ opts = None
    /\ args = None
    /\ script_args = <<>>
    /\ env = <<>>
    /\ temp_script = 0
    /\ fs = <<>>
    /\ next_temp = 1
    /\ child = NoChild
    /\ result = NoResult
    /\ runs = 0

TransformIdle ==
    /\ first = None
    /\ second = None

----------------------------------------------------------------------------
(* Specification of the transformer: the text of _create_temp_script,       *)
(* lines 142-216, run on a script and then on a script holding its output  *)

TextAlphabet ==
    {START, END, NL, USER_SETTING, END_SETTING, SHEBANG, COMMENT, CODE, SP}

\* all texts of exactly n tokens
TextsOfLen(n) == [1..n -> TextAlphabet]

\* all texts of at most MaxLen tokens
Texts == UNION {TextsOfLen(n) : n \in 0..MaxLen}

\* the schema of tests/test_simple.py
TestMeta ==
    [options |-> <<[name |-> <<"debug">>, flag |-> TRUE]>>,
     args |-> <<[name |-> <<"file">>]>>]

TransformSchemas == {EmptyMeta, TestMeta}

InitTransform ==
    /\ script_file \in Texts
    /\ script_meta \in TransformSchemas
    /\ environ = <<>>
    /\ cli = NoCli
    /\ pc = "start"
    /\ CommandIdle
    /\ TransformIdle
    /\ ReservedInit

\* new_content for the script at script_path
TransformScript ==
    /\ pc = "start"
    /\ first' = Transform(script_file, script_meta, FALSE)
    /\ pc' = "once"
    /\ UNCHANGED <<script_file, script_meta, environ, cli, opts, args, script_args,
                   env, temp_script, fs, next_temp, child, result, runs, second,
                   reserved>>

\* new_content for a script whose text is the first new_content
TransformTransformed ==
    /\ pc = "once"
    /\ second' = Transform(first, script_meta, FALSE)
    /\ pc' = "twice"
    /\ UNCHANGED <<script_file, script_meta, environ, cli, opts, args, script_args,
                   env, temp_script, fs, next_temp, child, result, runs, first,
                   reserved>>

NextTransform == TransformScript \/ TransformTransformed

SpecTransform == InitTransform /\ [][NextTransform]_vars

----------------------------------------------------------------------------
(* Claims about the transformer *)

\* number of occurrences of token t in s
Count(s, t) == Cardinality(Positions(s, t))

\* C3: transforming the output of a transformation again, with the same
\* schema, gives text identical to the output of the first transformation.
C3_Idempotent == pc = "twice" => second = first

\* C4: the transformed text holds exactly one runner block: one start marker
\* and one end marker, the start before the end.
C4_ExactlyOneBlock ==
    pc = "once" =>
        /\ Count(first, START) = 1
        /\ Count(first, END) = 1
        /\ \A i \in Positions(first, START) : \A j \in Positions(first, END) : i < j

\* s with up to two trailing newlines taken off
MinusNewlines(s) ==
    {SubSeq(s, 1, Len(s) - k) : k \in {k \in 0..2 : k <= Len(s) /\
        \A m \in (Len(s) - k + 1)..Len(s) : s[m] = NL}}

\* out is rest with block put in at one place, the transformer's separator
\* newlines around it allowed for
OnlyBlockAdded(rest, out, block) ==
    \E p \in 1..(Len(out) - Len(block) + 1) :
        /\ SubSeq(out, p, p + Len(block) - 1) = block
        /\ \E pre \in MinusNewlines(SubSeq(out, 1, p - 1)) :
            LET post == SubSeq(out, p + Len(block), Len(out))
            IN  \/ pre \o post = rest
                \/ pre \o <<NL>> \o post = rest

\* C5: the transformation changes nothing but the runner block: the output
\* without the inserted block and its separator newlines is the original text
\* without its old runner block, every other token present and in order.
C5_OnlyBlockChanged ==
    pc = "once" =>
        OnlyBlockAdded(RemoveRunnerBlock(script_file), first,
                       RunnerBlock(script_meta, FALSE))

----------------------------------------------------------------------------
(* Metadata parser: parse_script_metadata *)

DESCRIPTION == "# @description:"
ARG == "# @arg"
OPTION == "# @option"

\* tokens that are not made of \w characters
NonWord ==
    {SP, NL, ",", "[", "]", ":", "-", "default=", DESCRIPTION, ARG, OPTION,
     START, END, USER_SETTING, END_SETTING, SHEBANG, COMMENT, "#"}

\* \w+ matches the token
IsWord(t) == t \notin NonWord

\* the character classes of the two patterns
InClass(cls, t) ==
    CASE cls = "\\w" -> IsWord(t)
      [] cls = "\\s" -> t = SP
      [] cls = "[^\\]]" -> t # "]"
      [] cls = "[^,]" -> t # ","

RECURSIVE RunEnd(_, _, _)
\* the position after the longest run from i of tokens of class cls
RunEnd(s, i, cls) ==
    IF i <= Len(s) /\ InClass(cls, s[i]) THEN RunEnd(s, i + 1, cls) ELSE i

NoMatch == [ok |-> FALSE]

\* \s*:\s*(.*) at position i
MatchTail(s, i) ==
    LET c == RunEnd(s, i, "\\s")
    IN  IF c <= Len(s) /\ s[c] = ":"
        THEN [ok |-> TRUE,
              desc |-> SubSeq(s, RunEnd(s, c + 1, "\\s"), Len(s))]
        ELSE NoMatch

\* one \s+\[([^\]]+)\] at position i: the modifiers and the position after "]"
MatchModifier(s, i) ==
    LET b == RunEnd(s, i, "\\s")
        e == RunEnd(s, b + 1, "[^\\]]")
    IN  IF b > i /\ b <= Len(s) /\ s[b] = "[" /\ e > b + 1 /\ e <= Len(s)
        THEN [ok |-> TRUE, modifiers |-> SubSeq(s, b + 1, e - 1), next |-> e + 1]
        ELSE NoMatch

RECURSIVE MatchModifiers(_, _, _)
\* (\s+\[([^\]]+)\])* at position i, greedy: the group keeps its last repetition
MatchModifiers(s, i, last) ==
    LET m == MatchModifier(s, i)
    IN  IF m.ok THEN MatchModifiers(s, m.next, m.modifiers)
        ELSE [modifiers |-> last, next |-> i]

\* re.match(r"# @arg (\w+)(\s+\[([^\]]+)\])*\s*:\s*(.*)", line)
MatchArg(line) ==
    IF Len(line) >= 3 /\ line[1] = ARG /\ line[2] = SP /\ IsWord(line[3])
    THEN LET w == RunEnd(line, 3, "\\w")
             reps == MatchModifiers(line, w, None)
             tail == MatchTail(line, reps.next)
         IN  IF tail.ok
             THEN [ok |-> TRUE, name |-> SubSeq(line, 3, w - 1),
                   modifiers |-> reps.modifiers, desc |-> tail.desc]
             ELSE IF MatchTail(line, w).ok
             THEN [ok |-> TRUE, name |-> SubSeq(line, 3, w - 1),
                   modifiers |-> None, desc |-> MatchTail(line, w).desc]
             ELSE NoMatch
    ELSE NoMatch

\* re.search(r"default=([^\]]+)", modifiers): group 1, or None
DefaultOf(modifiers) ==
    LET ps == Positions(modifiers, "default=")
        i == CHOOSE k \in ps : \A j \in ps : k <= j
    IN  IF ps = {} \/ i = Len(modifiers) THEN None
        ELSE SubSeq(modifiers, i + 1, Len(modifiers))

\* arg_info for a matched "# @arg" line
ArgInfo(m) ==
    LET base == [name |-> m.name, description |-> m.desc]
        opt == IF Truthy(m.modifiers) /\ Positions(m.modifiers, "optional") # {}
               THEN base @@ [optional |-> TRUE] ELSE base
    IN  IF Truthy(m.modifiers) /\ Positions(m.modifiers, "default=") # {}
           /\ Truthy(DefaultOf(m.modifiers))
        THEN opt @@ [default |-> DefaultOf(m.modifiers)]
        ELSE opt

\* (?:,(\w+))?(\s+\[([^\]]+)\])?\s*:\s*(.*) at position i, each optional
\* group taken when the rest then matches
MatchOptionRest(s, i) ==
    LET w == RunEnd(s, i + 1, "\\w")
        hasShort == i <= Len(s) /\ s[i] = "," /\ w > i + 1
        Rest(j, short) ==
            LET m == MatchModifier(s, j)
            IN  IF m.ok /\ MatchTail(s, m.next).ok
                THEN [ok |-> TRUE, short |-> short, modifiers |-> m.modifiers,
                      desc |-> MatchTail(s, m.next).desc]
                ELSE IF MatchTail(s, j).ok
                THEN [ok |-> TRUE, short |-> short, modifiers |-> None,
                      desc |-> MatchTail(s, j).desc]
                ELSE NoMatch
    IN  IF hasShort /\ Rest(w, SubSeq(s, i + 1, w - 1)).ok
        THEN Rest(w, SubSeq(s, i + 1, w - 1))
        ELSE Rest(i, None)

\* re.match(r"# @option ([^,]+)(?:,(\w+))?(\s+\[([^\]]+)\])?\s*:\s*(.*)", line):
\* the greedy ([^,]+) keeps the longest run after which the rest matches
MatchOption(line) ==
    IF Len(line) >= 3 /\ line[1] = OPTION /\ line[2] = SP
    THEN LET ends == {e \in 4..RunEnd(line, 3, "[^,]") :
                         MatchOptionRest(line, e).ok}
         IN  IF ends = {} THEN NoMatch
             ELSE LET e == CHOOSE k \in ends : \A j \in ends : j <= k
                  IN  MatchOptionRest(line, e) @@ [name |-> SubSeq(line, 3, e - 1)]
    ELSE NoMatch

\* opt_info for a matched "# @option" line
OptInfo(m) ==
    LET base == [name |-> Strip(m.name), description |-> m.desc, short |-> m.short]
    IN  IF Truthy(m.modifiers)
        THEN IF Positions(m.modifiers, "flag") # {}
             THEN base @@ [flag |-> TRUE]
             ELSE IF Positions(m.modifiers, "default=") # {}
             THEN IF Truthy(DefaultOf(m.modifiers))
                  THEN base @@ [default |-> DefaultOf(m.modifiers), flag |-> FALSE]
                  ELSE base
             ELSE base @@ [flag |-> FALSE]
        ELSE base @@ [flag |-> FALSE]

\* the body of the loop over the lines of the file
ParseLine(metadata, raw) ==
    LET line == Strip(raw)
    IN  IF line # <<>> /\ line[1] = DESCRIPTION
        THEN [k \in DOMAIN metadata \cup {"description"} |->
                 IF k = "description" THEN Strip(Tail(line)) ELSE metadata[k]]
        ELSE IF line # <<>> /\ line[1] = ARG
        THEN IF MatchArg(line).ok
             THEN [metadata EXCEPT !.args = Append(@, ArgInfo(MatchArg(line)))]
             ELSE metadata
        ELSE IF line # <<>> /\ line[1] = OPTION
        THEN IF MatchOption(line).ok
             THEN [metadata EXCEPT !.options = Append(@, OptInfo(MatchOption(line)))]
             ELSE metadata
        ELSE metadata

RECURSIVE ParseLines(_, _)
ParseLines(metadata, lines) ==
    IF lines = <<>> THEN metadata
    ELSE ParseLines(ParseLine(metadata, Head(lines)), Tail(lines))

\* parse_script_metadata for a script with the given text
ParseScriptMetadata(text) == ParseLines(EmptyMeta, Split(text, NL))

----------------------------------------------------------------------------
(* Specification of the parser: scripts made of annotation lines of the     *)
(* documented forms                                                        *)

\* "# @option <name>[,<shortcut>] [flag|default=<value>] : <text>";
\* gap is the blank between the declaration and the colon
OptionAnnotation(name, short, mod, gap, text) ==
    <<OPTION, SP>> \o name
    \o (IF short = None THEN <<>> ELSE <<",">> \o short)
    \o (CASE mod = "flag" -> <<SP, "[", "flag", "]">>
          [] mod = "default" -> <<SP, "[", "default=", "v", "]">>
          [] mod = "none" -> <<>>)
    \o gap \o <<":", SP>> \o text

RECURSIVE Brackets(_)
\* " [m1] [m2] ..." for a sequence of modifiers
Brackets(mods) ==
    IF mods = <<>> THEN <<>>
    ELSE <<SP, "[">> \o Head(mods) \o <<"]">> \o Brackets(Tail(mods))

\* "# @arg <name> [modifier]* : <text>"
ArgAnnotation(name, mods, gap, text) ==
    <<ARG, SP>> \o name \o Brackets(mods) \o gap \o <<":", SP>> \o text

OptionNames == {<<"debug">>, <<"dry", "-", "run">>}
OptionShorts == {None, <<"d">>}
OptionMods == {"flag", "default", "none"}
ArgNames == {<<"file">>, <<"name">>}
OPTIONAL == <<"optional">>
DEFAULT_V == <<"default=", "v">>
ArgMods ==
    {<<>>, <<OPTIONAL>>, <<DEFAULT_V>>, <<OPTIONAL, DEFAULT_V>>,
     <<DEFAULT_V, OPTIONAL>>}
Gaps == {<<>>, <<SP>>}
DescText == <<"t">>

OptionForms ==
    {<<n, sh, m, g>> : n \in OptionNames, sh \in OptionShorts, m \in OptionMods,
                       g \in Gaps}
ArgForms == {<<n, ms, g>> : n \in ArgNames, ms \in ArgMods, g \in Gaps}

OptionAnnotations ==
    {OptionAnnotation(f[1], f[2], f[3], f[4], DescText) : f \in OptionForms}
ArgAnnotations == {ArgAnnotation(f[1], f[2], f[3], DescText) : f \in ArgForms}

\* the lines a script is made of
ScriptLines ==
    OptionAnnotations \cup ArgAnnotations
    \cup {<<DESCRIPTION, SP, "t">>, <<SHEBANG>>, <<CODE>>}

\* all scripts of at most MaxLines lines, each line ended by a newline
AnnotatedScripts ==
    UNION {{Join(ls, NL) \o <<NL>> : ls \in [1..n -> ScriptLines]} : n \in 1..MaxLines}

InitParse ==
    /\ script_file \in AnnotatedScripts
    /\ script_meta = EmptyMeta
    /\ environ = <<>>
    /\ cli = NoCli
    /\ pc = "start"
    /\ CommandIdle
    /\ TransformIdle
    /\ ReservedInit

\* discover_scripts: metadata = parse_script_metadata(script_file)
ParseScript ==
    /\ pc = "start"
    /\ script_meta' = ParseScriptMetadata(script_file)
    /\ pc' = "parsed"
    /\ UNCHANGED <<script_file, environ, cli, opts, args, script_args, env,
                   temp_script, fs, next_temp, child, result, runs, first, second,
                   reserved>>

NextParse == ParseScript

SpecParse == InitParse /\ [][NextParse]_vars

----------------------------------------------------------------------------
(* Claims about the parser *)

\* the lines of s that start with token t, in file order
RECURSIVE LinesWith(_, _)
LinesWith(lines, t) ==
    IF lines = <<>> THEN <<>>
    ELSE (IF Head(lines) # <<>> /\ Head(lines)[1] = t THEN <<Head(lines)>> ELSE <<>>)
         \o LinesWith(Tail(lines), t)

\* C6: an option line "# @option <name>[,<shortcut>] [flag|default=<value>] :
\* <text>", with or without shortcut, records an option named <name>, flag
\* exactly when the modifier is flag, default <value> exactly when the modifier
\* is default=<value>, and flag false without default when there is none.
C6_OptionParsed ==
    pc = "parsed" =>
        LET ls == LinesWith(Split(script_file, NL), OPTION)
            os == script_meta.options
        IN  /\ Len(os) = Len(ls)
            /\ \A i \in 1..Len(ls) : \A f \in OptionForms :
                   ls[i] = OptionAnnotation(f[1], f[2], f[3], f[4], DescText) =>
                       /\ os[i].name = f[1]
                       /\ Get(os[i], "flag", FALSE) = (f[3] = "flag")
                       /\ ("default" \in DOMAIN os[i]) = (f[3] = "default")
                       /\ f[3] = "default" => os[i].default = <<"v">>

\* m is one of the modifiers of the sequence ms
HasMod(ms, m) == \E k \in 1..Len(ms) : ms[k] = m

\* C7: an argument line "# @arg <name> [modifier]* : <text>" records
\* optional=true whenever an optional modifier is present and default=<value>
\* whenever a default=<value> modifier is present, in either order; the
\* arguments are recorded in the order of their lines.
C7_ArgParsed ==
    pc = "parsed" =>
        LET ls == LinesWith(Split(script_file, NL), ARG)
            as == script_meta.args
        IN  /\ Len(as) = Len(ls)
            /\ \A i \in 1..Len(ls) : \A f \in ArgForms :
                   ls[i] = ArgAnnotation(f[1], f[2], f[3], DescText) =>
                       /\ as[i].name = f[1]
                       /\ HasMod(f[2], OPTIONAL) => Get(as[i], "optional", FALSE)
                       /\ HasMod(f[2], DEFAULT_V) =>
                              Get(as[i], "default", None) = <<"v">>

----------------------------------------------------------------------------
(* Command adapter: ScriptCommand.arguments and ScriptCommand.options *)

\* an argument made optional by its declared flag only, a default ignored
ArgumentOfDeclaredOptional(arg) ==
    LET is_optional == Get(arg, "optional", FALSE)
    IN  [name |-> arg["name"],
         description |-> Get(arg, "description", <<>>),
         optional |-> is_optional,
         default |-> IF is_optional THEN Get(arg, "default", None) ELSE None]

\* one element of ScriptCommand.arguments: cleo's argument(...)
ArgumentOf(arg) ==
    LET has_default == Get(arg, "default", None) # None
        is_optional == Get(arg, "optional", FALSE) \/ has_default
    IN  [name |-> arg["name"],
         description |-> Get(arg, "description", <<>>),
         optional |-> is_optional,
         default |-> IF is_optional THEN Get(arg, "default", None) ELSE None]

\* ScriptCommand.arguments
Arguments(meta) ==
    LET as == Get(meta, "args", <<>>)
    IN  [i \in 1..Len(as) |-> ArgumentOf(as[i])]

\* the suffix put on every name, reserved or not
EffectiveNameAlways(name, res) == name \o <<"-", "sh">>

\* option_name after the reserved-name check
EffectiveName(name, res) ==
    IF name \in res.options THEN name \o <<"-", "sh">> ELSE name

\* short after the reserved-shortcut check
EffectiveShort(short, res) ==
    IF Truthy(short) /\ short \in res.shortcuts THEN None ELSE short

\* one element of ScriptCommand.options: cleo's option(...)
OptionOf(opt, res) ==
    LET option_name == EffectiveName(opt["name"], res)
        short == EffectiveShort(Get(opt, "short", None), res)
        default == Get(opt, "default", None)
    IN  IF Get(opt, "flag", FALSE)
        THEN [name |-> option_name, short |-> short,
              description |-> Get(opt, "description", <<>>), flag |-> TRUE]
        ELSE [name |-> option_name, short |-> short,
              description |-> Get(opt, "description", <<>>), flag |-> FALSE,
              value_required |-> (default = None), default |-> default]

\* ScriptCommand.options
Options(meta, res) ==
    LET os == Get(meta, "options", <<>>)
    IN  [i \in 1..Len(os) |-> OptionOf(os[i], res)]

----------------------------------------------------------------------------
(* What cleo hands to handle: self.argument(name) and self.option(name)     *)
(* for the registered definitions and the values typed on the command line *)

\* the first position of a definition with the given name, 0 if none
IndexOf(defs, n) ==
    LET idx == {i \in 1..Len(defs) : defs[i].name = n}
    IN  IF idx = {} THEN 0 ELSE CHOOSE i \in idx : \A j \in idx : i <= j

\* self.argument(name): the typed value, else the argument's default
CleoArgument(c, adefs, n) ==
    LET i == IndexOf(adefs, n)
    IN  IF c.args[i] # None THEN c.args[i] ELSE adefs[i].default

\* self.option(name): True/False for a flag, else the typed value or the default
CleoOption(c, odefs, n) ==
    LET i == IndexOf(odefs, n)
    IN  IF odefs[i].flag
        THEN (IF c.options[i] # None THEN PyTrue ELSE PyFalse)
        ELSE IF c.options[i] # None THEN c.options[i] ELSE odefs[i].default

----------------------------------------------------------------------------
(* ScriptCommand.handle up to the child process *)

RECURSIVE CollectArgs(_, _, _)
\* script_args: the truthy argument values in declared order
CollectArgs(c, adefs, arg_defs) ==
    IF arg_defs = <<>> THEN <<>>
    ELSE LET value == CleoArgument(c, adefs, Head(arg_defs)["name"])
         IN  (IF Truthy(value) THEN <<value>> ELSE <<>>)
             \o CollectArgs(c, adefs, Tail(arg_defs))

\* env[k] = v
SetEnv(e, k, v) == [x \in DOMAIN e \cup {k} |-> IF x = k THEN v ELSE e[x]]

\* env_name = f"CLI_{original_name.replace('-', '_').upper()}"
EnvName(original_name) == <<"CLI_">> \o VarName(original_name)

\* option_name: the name handle asks cleo for
HandleOptionName(original_name, res) ==
    IF original_name \in res.options
    THEN original_name \o <<"-", "sh">> ELSE original_name

\* the body of the loop over the options
EnvStep(e, c, odefs, opt_def, res) ==
    LET original_name == opt_def["name"]
        option_name == HandleOptionName(original_name, res)
        option_value == CleoOption(c, odefs, option_name)
    IN  IF Truthy(option_value)
        THEN IF Get(opt_def, "flag", FALSE)
             THEN SetEnv(e, EnvName(original_name), <<"1">>)
             ELSE SetEnv(e, EnvName(original_name), option_value)
        ELSE e

RECURSIVE BuildEnv(_, _, _, _, _)
\* env = os.environ.copy(), then the loop over the options
BuildEnv(e, c, odefs, opt_defs, res) ==
    IF opt_defs = <<>> THEN e
    ELSE BuildEnv(EnvStep(e, c, odefs, Head(opt_defs), res), c, odefs,
                  Tail(opt_defs), res)

\* the cleanup left out: the file stays
UnlinkSkipped(files, path) == files

\* os.unlink(path) if os.path.exists(path)
Unlink(files, path) ==
    IF path \in DOMAIN files
    THEN [q \in DOMAIN files \ {path} |-> files[q]]
    ELSE files

\* the file written at path
WriteFile(files, path, text) ==
    [q \in DOMAIN files \cup {path} |-> IF q = path THEN text ELSE files[q]]

----------------------------------------------------------------------------
(* The bash child: the assignments of the temp script, evaluated with the   *)
(* environment and the positional parameters it was started with           *)

Digits == {ToString(n) : n \in 1..9}

\* tokens a shell variable name is made of
IsIdent(t) ==
    t \in {"_", "CLI_"} \cup {UpperTable[k] : k \in DOMAIN UpperTable}

RECURSIVE IdentEnd(_, _)
\* the position after the run of name tokens from i
IdentEnd(t, i) == IF i <= Len(t) /\ IsIdent(t[i]) THEN IdentEnd(t, i + 1) ELSE i

\* the value of a variable: empty when unset
Lookup(e, n) == IF n \in DOMAIN e THEN e[n] ELSE <<>>

RECURSIVE CloseBrace(_, _, _)
\* the position of the "}" that closes the "${" opened before i
CloseBrace(t, i, depth) ==
    IF i > Len(t) THEN i
    ELSE IF t[i] = "${" THEN CloseBrace(t, i + 1, depth + 1)
    ELSE IF t[i] = "}" THEN (IF depth = 0 THEN i ELSE CloseBrace(t, i + 1, depth - 1))
    ELSE CloseBrace(t, i + 1, depth)

RECURSIVE ExpandWord(_, _, _, _)
RECURSIVE ExpandParam(_, _, _, _)

\* ${parameter} and ${parameter:-word}, i the position after "${": a
\* parameter is a name, a positional digit or the special parameter $, and
\* anything but "}" or ":-" after it is a bad substitution; word is expanded
\* only when the parameter is unset or empty
ExpandParam(t, i, e, params) ==
    LET close == CloseBrace(t, i, 0)
        j == IF i <= Len(t) /\ (t[i] = "$" \/ t[i] \in Digits) THEN i + 1
             ELSE IdentEnd(t, i)
        n == SubSeq(t, i, j - 1)
        value == IF n = <<"$">> THEN <<"pid">>
                 ELSE IF n # <<>> /\ n[1] \in Digits
                 THEN LET k == CHOOSE d \in 1..9 : ToString(d) = n[1]
                      IN  IF k <= Len(params) THEN params[k] ELSE <<>>
                 ELSE Lookup(e, n)
    IN  IF j = i \/ j > Len(t) \/ t[j] \notin {"}", ":-"}
        THEN [ok |-> FALSE, val |-> <<>>, next |-> close + 1]
        ELSE IF t[j] = "}" \/ value # <<>>
        THEN [ok |-> TRUE, val |-> value, next |-> close + 1]
        ELSE LET w == ExpandWord(t, j + 1, e, params)
             IN  [ok |-> w.ok, val |-> w.val, next |-> close + 1]

\* the expansion of the word from i up to an unmatched "}" or the line's end
ExpandWord(t, i, e, params) ==
    IF i > Len(t) \/ t[i] = "}" THEN [ok |-> TRUE, val |-> <<>>, next |-> i]
    ELSE IF t[i] = "${"
    THEN LET p == ExpandParam(t, i + 1, e, params)
             r == ExpandWord(t, p.next, e, params)
         IN  [ok |-> p.ok /\ r.ok, val |-> p.val \o r.val, next |-> r.next]
    ELSE LET r == ExpandWord(t, i + 1, e, params)
         IN  [ok |-> r.ok, val |-> <<t[i]>> \o r.val, next |-> r.next]

\* one line of the script: NAME=word assigns, a bad substitution leaves the
\* variable as it was; comments and the script's own commands bind nothing
RunLine(sh, line, params) ==
    LET k == IdentEnd(line, 1)
    IN  IF k > 1 /\ k <= Len(line) /\ line[k] = "="
        THEN LET w == ExpandWord(line, k + 1, sh.vars, params)
                 n == SubSeq(line, 1, k - 1)
             IN  IF w.ok
                 THEN [sh EXCEPT !.vars = SetEnv(@, n, w.val)]
                 ELSE [sh EXCEPT !.failed = @ \cup {n}]
        ELSE sh

RECURSIVE RunLines(_, _, _)
RunLines(sh, lines, params) ==
    IF lines = <<>> THEN sh
    ELSE RunLines(RunLine(sh, Head(lines), params), Tail(lines), params)

\* bash temp_script script_args..., started with environment e
RunBash(text, e, params) ==
    RunLines([ran |-> TRUE, vars |-> e, params |-> params, failed |-> {}],
             Split(text, NL), params)

----------------------------------------------------------------------------
(* Schemas, command lines and environments of the command specifications *)

\* the three kinds of option and of argument a schema can declare
OptionKinds ==
    {[flag |-> TRUE], [flag |-> FALSE], [flag |-> FALSE, default |-> <<"dflt">>]}
ArgKinds ==
    {<<>>, [optional |-> TRUE], [default |-> <<"dflt">>],
     [optional |-> FALSE, default |-> <<"dflt">>]}

\* all sequences of at most n elements of S
SeqsUpTo(S, n) == UNION {[1..k -> S] : k \in 0..n}

\* option declarations of the conflict-resolution specification
DeclaredNames == {<<"debug">>, <<"help">>, <<"dry", "-", "run">>}
DeclaredShorts == {None, <<"d">>, <<"h">>}
OptionDecls ==
    {[name |-> n, short |-> sh] @@ k :
        n \in DeclaredNames, sh \in DeclaredShorts, k \in OptionKinds}

\* option declarations of the handle specification
HandleOptionDecls ==
    {[name |-> n, short |-> None] @@ k :
        n \in {<<"help">>, <<"dry", "-", "run">>}, k \in OptionKinds}

\* the i-th argument of a schema is named by its position
ArgNameAt == <<<<"file">>, <<"name">>, <<"out">>>>
ArgSeqs ==
    {[i \in 1..Len(ks) |-> [name |-> ArgNameAt[i]] @@ ks[i]] :
        ks \in SeqsUpTo(ArgKinds, MaxArgs)}

Schemas ==
    {[args |-> as, options |-> os] :
        as \in ArgSeqs, os \in SeqsUpTo(OptionDecls, MaxOpts)}

\* cleo refuses a required argument after an optional one: the argument
\* lists of the commands that can be registered
RegistrableArgSeqs ==
    {as \in ArgSeqs :
        \A i \in 1..Len(as) :
            ArgumentOf(as[i]).optional =>
                \A j \in i..Len(as) : ArgumentOf(as[j]).optional}

HandleSchemas ==
    {[args |-> as, options |-> os] :
        as \in RegistrableArgSeqs, os \in SeqsUpTo(HandleOptionDecls, MaxOpts)}

\* the value typed for the i-th argument
ArgValue(i) == <<"arg", ToString(i)>>

\* what can be typed for an argument: a required one is always given
ArgTyped(adef, i) ==
    IF adef.optional THEN {None, <<>>, ArgValue(i)} ELSE {<<>>, ArgValue(i)}

\* what can be typed for an option: None when it is left out
OptionTyped(odef) ==
    IF odef.flag THEN {None, PyTrue} ELSE {None, <<>>, <<"cli">>}

\* the command lines cleo accepts for the registered definitions: arguments
\* are positional, so one is typed only when those before it are
Clis(adefs, odefs) ==
    {c \in [args : [1..Len(adefs) -> {None, <<>>} \cup {ArgValue(i) : i \in 1..Len(adefs)}],
            options : [1..Len(odefs) -> {None, <<>>, PyTrue, <<"cli">>}]] :
        /\ \A i \in 1..Len(adefs) : c.args[i] \in ArgTyped(adefs[i], i)
        /\ \A i \in 2..Len(adefs) : c.args[i] # None => c.args[i - 1] # None
        /\ \A i \in 1..Len(odefs) : c.options[i] \in OptionTyped(odefs[i])}

\* the variables of the invoking environment the runner block reads
RunnerNames(meta) ==
    UNION {{VarName(meta.options[i].name), EnvName(meta.options[i].name)} :
              i \in 1..Len(meta.options)}

\* invoking environments: empty, or one of those variables set
Environs(meta) == {<<>>} \cup {n :> <<"amb">> : n \in RunnerNames(meta)}

\* the script of tests/test_script_command.py
HandleScripts == {<<SHEBANG, CODE, NL, CODE>>}

\* the schemas of tests/test_script_command.py: the cleanup tests and the
\* handle integration test
LifecycleSchemas ==
    {EmptyMeta,
     [args |-> <<[name |-> <<"name">>]>>,
      options |-> <<[name |-> <<"verbose">>, flag |-> TRUE]>>]}

----------------------------------------------------------------------------
(* Specification of the command: registration, then invocations of handle  *)
(* one after the other, as a test session makes them                       *)

Init ==
    /\ script_file \in HandleScripts
    /\ script_meta \in LifecycleSchemas
    /\ environ \in Environs(script_meta)
    /\ cli = NoCli
    /\ pc = "new"
    /\ CommandIdle
    /\ TransformIdle
    /\ ReservedInit

\* cleo reads the arguments property when the command is added
ReadArguments ==
    /\ pc = "new"
    /\ args' = Arguments(script_meta)
    /\ pc' = "arguments"
    /\ UNCHANGED <<script_file, script_meta, environ, cli, opts, script_args, env,
                   temp_script, fs, next_temp, child, result, runs, first, second,
                   reserved>>

\* cleo reads the options property when the command is added
ReadOptions ==
    /\ pc = "arguments"
    /\ opts' = Options(script_meta, reserved)
    /\ pc' = "ready"
    /\ UNCHANGED <<script_file, script_meta, environ, cli, args, script_args, env,
                   temp_script, fs, next_temp, child, result, runs, first, second,
                   reserved>>

\* handle, lines 99-128, with _create_temp_script returning the temp path
HandleStart ==
    /\ pc \in {"ready", "returned", "raised"}
    /\ runs < MaxRuns
    /\ \E c \in Clis(args, opts) :
        /\ cli' = c
        /\ script_args' = CollectArgs(c, args, Get(script_meta, "args", <<>>))
        /\ env' = BuildEnv(environ, c, opts, Get(script_meta, "options", <<>>),
                           reserved)
    /\ fs' = WriteFile(fs, next_temp, Transform(script_file, script_meta, FALSE))
    /\ temp_script' = next_temp
    /\ next_temp' = next_temp + 1
    /\ result' = NoResult
    /\ pc' = "running"
    /\ UNCHANGED <<script_file, script_meta, environ, opts, args, child, runs,
                   first, second, reserved>>

\* handle, lines 99-128, with the write in _create_temp_script failing: the
\* except clause unlinks the file mkstemp made and the error leaves handle,
\* its locals with it
HandleStartFails ==
    /\ pc \in {"ready", "returned", "raised"}
    /\ runs < MaxRuns
    /\ fs' = Unlink(WriteFile(fs, next_temp, <<>>), next_temp)
    /\ temp_script' = next_temp
    /\ next_temp' = next_temp + 1
    /\ result' = [kind |-> "raised", from |-> "_create_temp_script"]
    /\ runs' = runs + 1
    /\ pc' = "raised"
    /\ UNCHANGED <<script_file, script_meta, environ, cli, opts, args, script_args,
                   env, child, first, second, reserved>>

\* subprocess.run returns: the child ran the temp script and exited; the
\* script may have removed its own file
SubprocessExits ==
    /\ pc = "running"
    /\ \E code \in {0, 1} :
        child' = RunBash(fs[temp_script], env, script_args)
                 @@ [returncode |-> code]
    /\ \E removed \in BOOLEAN :
        fs' = IF removed THEN Unlink(fs, temp_script) ELSE fs
    /\ pc' = "exited"
    /\ UNCHANGED <<script_file, script_meta, environ, cli, opts, args, script_args,
                   env, temp_script, next_temp, result, runs, first, second,
                   reserved>>

\* subprocess.run raises: the child could not be started
SubprocessRaises ==
    /\ pc = "running"
    /\ pc' = "raising"
    /\ UNCHANGED <<script_file, script_meta, environ, cli, opts, args, script_args,
                   env, temp_script, fs, next_temp, child, result, runs, first,
                   second, reserved>>

\* the finally clause of handle, then the return or the propagated
\* exception, which end the locals of the call
HandleFinally ==
    /\ pc \in {"exited", "raising"}
    /\ fs' = Unlink(fs, temp_script)
    /\ IF pc = "exited"
       THEN /\ result' = [kind |-> "returned", code |-> child.returncode]
            /\ pc' = "returned"
       ELSE /\ result' = [kind |-> "raised", from |-> "subprocess.run"]
            /\ pc' = "raised"
    /\ runs' = runs + 1
    /\ cli' = NoCli
    /\ script_args' = <<>>
    /\ env' = <<>>
    /\ child' = NoChild
    /\ UNCHANGED <<script_file, script_meta, environ, opts, args, temp_script,
                   next_temp, first, second, reserved>>

Next ==
    \/ ReadArguments
    \/ ReadOptions
    \/ HandleStart
    \/ HandleStartFails
    \/ SubprocessExits
    \/ SubprocessRaises
    \/ HandleFinally

Spec == Init /\ [][Next]_vars

----------------------------------------------------------------------------
(* Specification of one run of the tool: main registers the command and     *)
(* app.run() dispatches the one command line, for any schema, command line *)
(* and invoking environment                                                *)

InitHandle ==
    /\ script_file \in HandleScripts
    /\ script_meta \in HandleSchemas
    /\ environ \in Environs(script_meta)
    /\ cli = NoCli
    /\ pc = "new"
    /\ CommandIdle
    /\ TransformIdle
    /\ ReservedInit

\* app.run(): handle is called once
MainRun == runs = 0 /\ pc = "ready" /\ HandleStart

\* app.run(), the temp script cannot be written
MainRunFails == runs = 0 /\ pc = "ready" /\ HandleStartFails

NextHandle ==
    \/ ReadArguments
    \/ ReadOptions
    \/ MainRun
    \/ MainRunFails
    \/ SubprocessExits
    \/ SubprocessRaises
    \/ HandleFinally

SpecHandle == InitHandle /\ [][NextHandle]_vars

----------------
(* Specification of conflict resolution: the properties of a command built  *)
(* for any schema                                                          *)

InitOptions ==
    /\ script_file \in HandleScripts
    /\ script_meta \in Schemas
    /\ environ = <<>>
    /\ cli = NoCli
    /\ pc = "new"
    /\ CommandIdle
    /\ TransformIdle
    /\ ReservedInit

NextOptions == ReadArguments \/ ReadOptions

SpecOptions == InitOptions /\ [][NextOptions]_vars

----------------------------------------------------------------------------
(* Claims about handle *)

\* C1: however the child process step ends (exit code 0, non-zero exit code,
\* subprocess.run raising), the temp script made for the invocation no longer
\* exists once handle has returned or propagated the exception.
C1_TempFileRemoved ==
    pc \in {"returned", "raised"} => temp_script \notin DOMAIN fs

\* a second invocation has ended with subprocess.run raising, after its temp
\* script had been written
C1_Witness ==
    /\ pc = "raised"
    /\ result = [kind |-> "raised", from |-> "subprocess.run"]
    /\ runs = 2
    /\ temp_script = 2

\* the declared options of the schema with their positions
OptionIndex == 1..Len(script_meta.options)

\* C2: the binding line of a non-flag option gives the script variable the
\* value of the ambient variable VAR if set, else of the overlay variable
\* CLI_VAR if set, else the declared default, else the empty string.
C2_Precedence ==
    pc = "exited" =>
        \A i \in OptionIndex :
            LET opt == script_meta.options[i]
                A == Lookup(environ, VarName(opt.name))
                C == Lookup(env, EnvName(opt.name))
                D == Get(opt, "default", <<>>)
            IN  ~Get(opt, "flag", FALSE) =>
                    Lookup(child.vars, VarName(opt.name)) =
                        IF A # <<>> THEN A ELSE IF C # <<>> THEN C ELSE D

\* C8: the value a flag's variable receives depends only on whether the flag
\* was passed on the command line: 1 when passed, 0 when not, whatever the
\* invoking environment holds.
C8_FlagFromCliOnly ==
    pc = "exited" =>
        \A i \in OptionIndex :
            Get(script_meta.options[i], "flag", FALSE) =>
                Lookup(child.vars, VarName(script_meta.options[i].name)) =
                    IF cli.options[i] # None THEN <<"1">> ELSE <<"0">>

\* the overlay variables of the options given on the command line
SuppliedNames ==
    {EnvName(script_meta.options[i].name) :
        i \in {j \in OptionIndex : cli.options[j] # None}}

\* C9: for every option given on the command line the child's environment
\* holds CLI_ + the original name normalized, "1" for a flag and the given
\* string for a value option; every other variable of the invoking
\* environment is copied unchanged.
C9_Overlay ==
    pc = "running" =>
        /\ \A i \in OptionIndex :
               cli.options[i] # None =>
                   LET n == <<"CLI_">> \o VarName(script_meta.options[i].name)
                   IN  /\ n \in DOMAIN env
                       /\ env[n] = IF Get(script_meta.options[i], "flag", FALSE)
                                   THEN <<"1">> ELSE cli.options[i]
        /\ \A n \in DOMAIN environ \ SuppliedNames :
               n \in DOMAIN env /\ env[n] = environ[n]

----------------------------------------------------------------------------
(* Claims about conflict resolution *)

\* C10: for every declared option the effective name is the declared name +
\* "-sh" exactly when the declared name is reserved and the declared name
\* otherwise; the effective shortcut is absent exactly when none is declared
\* or the declared one is reserved, and the declared one otherwise; a
\* reserved shortcut never changes the name; the reserved sets stay as they
\* are.
C10_ConflictResolution ==
    /\ reserved = [options |-> CLEO_RESERVED_OPTIONS,
                   shortcuts |-> CLEO_RESERVED_SHORTCUTS]
    /\ pc = "ready" =>
        /\ Len(opts) = Len(script_meta.options)
        /\ \A i \in OptionIndex :
            LET declared == script_meta.options[i]
                isReserved == declared.name \in CLEO_RESERVED_OPTIONS
            IN  /\ (opts[i].name = declared.name \o <<"-", "sh">>) <=> isReserved
                /\ ~isReserved => opts[i].name = declared.name
                /\ (opts[i].short = None) <=>
                       (declared.short = None
                        \/ declared.short \in CLEO_RESERVED_SHORTCUTS)
                /\ opts[i].short # None => opts[i].short = declared.short

\* the command of Scenario D is registered: option help with shortcut h
C10_Witness ==
    /\ pc = "ready"
    /\ \E i \in OptionIndex :
        /\ script_meta.options[i].name = <<"help">>
        /\ script_meta.options[i].short = <<"h">>
        /\ opts[i].name = <<"help", "-", "sh">>
        /\ opts[i].short = None

----------------------------------------------------------------------------
(* Specification of the two block writers: _create_temp_script writes the   *)
(* transformed text to a temp file, _update_script_runner_block writes it  *)
(* back to the script                                                      *)

\* scripts the block is written into: plain, holding an old block, holding
\* the user-setting marker
BlockScripts ==
    HandleScripts
    \cup {<<SHEBANG, CODE, NL, START, NL, END, NL, CODE>>,
          <<SHEBANG, CODE, NL, USER_SETTING, NL, CODE>>}

InitBlock ==
    /\ script_file \in BlockScripts
    /\ script_meta \in Schemas
    /\ environ = <<>>
    /\ cli = NoCli
    /\ pc = "start"
    /\ CommandIdle
    /\ TransformIdle
    /\ ReservedInit

\* _create_temp_script, lines 140-227: the temp path is returned
CreateTempScript ==
    /\ pc = "start"
    /\ fs' = WriteFile(fs, next_temp, Transform(script_file, script_meta, FALSE))
    /\ temp_script' = next_temp
    /\ next_temp' = next_temp + 1
    /\ pc' = "created"
    /\ UNCHANGED <<script_file, script_meta, environ, cli, opts, args, script_args,
                   env, child, result, runs, first, second, reserved>>

\* _update_script_runner_block, lines 234-319: the script is rewritten, then
\* the name temp_path, bound nowhere, is looked up and NameError leaves the
\* method
UpdateScriptRunnerBlock ==
    /\ pc \in {"start", "created"}
    /\ script_file' = Transform(script_file, script_meta, TRUE)
    /\ result' = [kind |-> "raised", from |-> "_update_script_runner_block"]
    /\ pc' = "updated"
    /\ UNCHANGED <<script_meta, environ, cli, opts, args, script_args, env,
                   temp_script, fs, next_temp, child, runs, first, second,
                   reserved>>

NextBlock == CreateTempScript \/ UpdateScriptRunnerBlock

SpecBlock == InitBlock /\ [][NextBlock]_vars

----------------------------------------------------------------------------
(* Claims about the generated block *)

\* the texts a block has been generated into
GeneratedTexts ==
    {fs[p] : p \in DOMAIN fs}
    \cup (IF pc = "updated" THEN {script_file} ELSE {})

\* the lines of a text from the line of the start marker on
LinesFromStart(text) ==
    LET lines == Split(text, NL)
        s == CHOOSE i \in 1..Len(lines) :
                 /\ lines[i] = <<START>>
                 /\ \A j \in 1..(i - 1) : lines[j] # <<START>>
    IN  SubSeq(lines, s, Len(lines))

\* the declared arguments of the schema with their positions
ArgIndex == 1..Len(script_meta.args)

\* C11: in every runner block the code generates, by _create_temp_script and
\* by _update_script_runner_block, the Nth declared argument gets exactly the
\* line VAR=${N:-default}, VAR the normalized name and default the declared
\* default or empty, whatever options are declared.
C11_ArgBinding ==
    \A text \in GeneratedTexts :
        \A n \in ArgIndex :
            LinesFromStart(text)[1 + Len(script_meta.options) + n] =
                VarName(script_meta.args[n].name)
                \o <<"=", "${", ToString(n), ":-">>
                \o Get(script_meta.args[n], "default", <<>>) \o <<"}">>

----------------------------------------------------------------------------
(* Claims about the parameters the command exposes *)

----------------------------------------------------------------------------
(* Claims about the positional arguments of the child *)

\* the value handle reads for each declared argument: typed, else the default
ArgValues == [i \in ArgIndex |-> CleoArgument(cli, args, script_meta.args[i].name)]

\* C14: the positional parameters of the child are the values of the declared
\* arguments in declaration order with only the absent ones left out; a value
\* typed for the Nth declared argument, the empty string included, is the
\* child's Nth positional parameter, and a non-empty one is the value of that
\* argument's variable.
C14_ArgsReachChild ==
    pc = "exited" =>
        /\ child.params = SelectSeq(ArgValues, LAMBDA v : v # None)
        /\ \A n \in ArgIndex :
               cli.args[n] # None =>
                   /\ Len(child.params) >= n
                   /\ child.params[n] = cli.args[n]
                   /\ cli.args[n] # <<>> =>
                          Lookup(child.vars, VarName(script_meta.args[n].name))
                              = cli.args[n]

----------------------------------------------------------------------------
(* Specification of conflict resolution for schemas of several options      *)
(* with pairwise distinct names                                            *)

\* declared names: reserved, the reserved one with the suffix, unreserved
DistinctNames == {<<"help">>, <<"help", "-", "sh">>, <<"debug">>}

DistinctDecls ==
    {[name |-> n, short |-> None] @@ k : n \in DistinctNames, k \in OptionKinds}

\* option lists whose declared names are pairwise distinct
DistinctOptionSeqs ==
    {os \in SeqsUpTo(DistinctDecls, MaxOpts + 1) :
        \A i, j \in 1..Len(os) : i # j => os[i].name # os[j].name}

DistinctSchemas == {[args |-> <<>>, options |-> os] : os \in DistinctOptionSeqs}

InitDistinct ==
    /\ script_file \in HandleScripts
    /\ script_meta \in DistinctSchemas
    /\ environ = <<>>
    /\ cli = NoCli
    /\ pc = "new"
    /\ CommandIdle
    /\ TransformIdle
    /\ ReservedInit

SpecDistinct == InitDistinct /\ [][NextOptions]_vars

\* C15: for a schema whose declared option names are pairwise distinct the
\* effective names are pairwise distinct, and the name handle looks up for a
\* declared option is the effective name of that option and of no other.
C15_Distinguishable ==
    pc = "ready" =>
        /\ \A i, j \in OptionIndex : i # j => opts[i].name # opts[j].name
        /\ \A i, j \in OptionIndex :
               (HandleOptionName(script_meta.options[i].name, reserved)
                    = opts[j].name) <=> i = j

----------------------------------------------------------------------------
(* Claims about the insertion point, checked under SpecTransform *)

\* the first position in out where block stands
BlockAt(out, block) ==
    LET at == {p \in 1..(Len(out) - Len(block) + 1) :
                  SubSeq(out, p, p + Len(block) - 1) = block}
    IN  CHOOSE p \in at : \A q \in at : p <= q

\* the text before and after the block inserted into the first output
BeforeBlock ==
    SubSeq(first, 1, BlockAt(first, RunnerBlock(script_meta, FALSE)) - 1)
AfterBlock ==
    SubSeq(first,
           BlockAt(first, RunnerBlock(script_meta, FALSE))
               + Len(RunnerBlock(script_meta, FALSE)),
           Len(first))

\* the text of the script without its old runner block
Content == RemoveRunnerBlock(script_file)

\* the position of the first user-setting marker
MarkerAt(s) ==
    CHOOSE m \in Positions(s, USER_SETTING) :
        \A q \in Positions(s, USER_SETTING) : m <= q

IsBlankLine(line) == Strip(line) = <<>>
IsCommentLine(line) == StartsWithHash(Strip(line))

\* the first line of lines that is not blank, <<>> if all are blank
FirstNonBlank(lines) ==
    LET nb == {i \in 1..Len(lines) : ~IsBlankLine(lines[i])}
    IN  IF nb = {} THEN <<>>
        ELSE lines[CHOOSE i \in nb : \A j \in nb : i <= j]

\* the block stands right after the first line, a blank line allowed between
AfterFirstLine ==
    LET firstLine == Split(Content, NL)[1]
    IN  BeforeBlock \in {firstLine \o <<NL>>, firstLine \o <<NL, NL>>}

\* no marker in the text: after a shebang line, else at the start
WithoutMarker ==
    LET firstLine == Split(Content, NL)[1]
    IN  IF firstLine # <<>> /\ firstLine[1] = SHEBANG
        THEN AfterFirstLine
        ELSE BeforeBlock = <<>>

\* the block stands after the marker and the comment lines that follow it,
\* and what follows the block is not a comment line
AfterCommentRun ==
    LET m == MarkerAt(Content)
        skipped == Split(SubSeq(BeforeBlock, m + 1, Len(BeforeBlock)), NL)
    IN  /\ Len(BeforeBlock) >= m
        /\ SubSeq(BeforeBlock, 1, m) = SubSeq(Content, 1, m)
        /\ \A i \in 2..Len(skipped) :
               IsBlankLine(skipped[i]) \/ IsCommentLine(skipped[i])
        /\ ~IsCommentLine(FirstNonBlank(Split(AfterBlock, NL)))

\* C13: if the text (after removal of an old block) holds the user-setting
\* marker, the block is inserted after the marker, right after the
\* contiguous run of comment lines that follows the marker and before the
\* first non-comment line; otherwise, if the first line starts with #!, right
\* after that first line; otherwise the output starts with the block.
C13_InsertionPoint ==
    pc = "once" =>
        IF HasUserSetting(Content) THEN AfterCommentRun ELSE WithoutMarker

\* a line that ends the settings section: a non-blank line that is no
\* comment, or a comment that starts with "# " and does not hold USER SETTING
EndsSection(line) ==
    \/ ~IsBlankLine(line) /\ ~IsCommentLine(line)
    \/ StartsWithHashSpace(Strip(line)) /\ ~MentionsUserSetting(line)

\* the block stands after the first marker, a blank line before it, in front
\* of the first line up to the next marker that ends the section, and right
\* after the marker if no line does
BeforeSectionEnd ==
    LET m == MarkerAt(Content)
        later == {q \in Positions(Content, USER_SETTING) : q > m}
        stop == IF later = {} THEN Len(Content) + 1
                ELSE CHOOSE q \in later : \A r \in later : q <= r
        lines == Split(SubSeq(Content, m + 1, stop - 1), NL)
    IN  \E k \in 0..(Len(lines) - 1) :
            /\ BeforeBlock = SubSeq(Content, 1, m)
                             \o Join(SubSeq(lines, 1, k), NL) \o <<NL, NL>>
            /\ Len(AfterBlock) >= Len(lines[k + 1])
            /\ SubSeq(AfterBlock, 1, Len(lines[k + 1])) = lines[k + 1]
            /\ \A i \in 1..k : ~EndsSection(lines[i])
            /\ \/ EndsSection(lines[k + 1])
               \/ k = 0 /\ \A i \in 1..Len(lines) : ~EndsSection(lines[i])

\* C13 as amended: with the marker in the text the block is inserted after
\* the first marker, before the first following line that is a non-blank
\* non-comment line or a "# " comment without the words USER SETTING (blank
\* lines and other comments are passed over), and right after the marker if
\* there is no such line; without the marker as C13 states.
C13_InsertionPointAmended ==
    pc = "once" =>
        IF HasUserSetting(Content) THEN BeforeSectionEnd ELSE WithoutMarker

\* the marker line is followed by a "# " comment line, and the block was
\* inserted in front of that line
C13_Witness ==
    /\ pc = "once"
    /\ HasUserSetting(Content)
    /\ Len(Content) >= MarkerAt(Content) + 3
    /\ SubSeq(Content, MarkerAt(Content) + 1, MarkerAt(Content) + 3)
           = <<NL, COMMENT, CODE>>
    /\ Len(AfterBlock) >= 2
    /\ SubSeq(AfterBlock, 1, 2) = <<COMMENT, CODE>>

====
